---- MODULE Spec2Model ----
(***************************************************************************)
(* The invisible fingerprinting codec of KMCN Character Studio             *)
(* (src/components/PerspectiveMerger.tsx): embedInvisibleWatermark,       *)
(* embedIntoData, binaryToText and decodeInvisibleWatermark.              *)
(*                                                                         *)
(* Strings are sequences of UTF-16 code units (what charCodeAt returns),   *)
(* binary strings are sequences of the digits 0 and 1, and a pixel buffer  *)
(* (Uint8ClampedArray) is a function from the byte indices 0..n-1 to       *)
(* 0..255, so that every index below is the index the source uses.         *)
(* An encoded image ("base64Data") is the record of its MIME type and of   *)
(* the raster the browser decodes it to; the canvas is taken to store and  *)
(* return pixel values exactly.                                            *)
(***************************************************************************)
EXTENDS Integers, Sequences, FiniteSets, TLC

(***************************************************************************)
(* Bounds of the model                                                     *)
(***************************************************************************)
\* longest payload enumerated over Alphabet
MaxLen == 2

(***************************************************************************)
(* Strings                                                                 *)
(***************************************************************************)
\* "||END||" as char codes ('|' = 124, 'E' = 69, 'N' = 78, 'D' = 68)
terminator == <<124, 124, 69, 78, 68, 124, 124>>

Min(a, b) == IF a < b THEN a ELSE b

\* Math.ceil(a / b) for a >= 0, b > 0
Ceil(a, b) == (a + b - 1) \div b

\* String.prototype.substring(from, to) with 0-based from, exclusive to
Substring(s, from, to) ==
    LET t == Min(to, Len(s))
    IN  IF from >= t THEN << >> ELSE SubSeq(s, from + 1, t)

\* String.prototype.indexOf: first 0-based index of pat in s, or -1
IndexOf(s, pat) ==
    LET hits == { i \in 0..(Len(s) - Len(pat)) :
                    SubSeq(s, i + 1, i + Len(pat)) = pat }
    IN  IF hits = {} THEN -1
        ELSE CHOOSE i \in hits : \A j \in hits : i <= j

\* Number.prototype.toString(2): the binary digits of n >= 0, no leading zeros
RECURSIVE ToBinary(_)
ToBinary(n) ==
    IF n < 2 THEN <<n>> ELSE Append(ToBinary(n \div 2), n % 2)

\* String.prototype.padStart(8, '0'): pads, never truncates
RECURSIVE PadStart8(_)
PadStart8(s) == IF Len(s) >= 8 THEN s ELSE PadStart8(<<0>> \o s)

\* parseInt(byte, 2) of a digit string
RECURSIVE ParseBinary(_)
ParseBinary(b) ==
    IF b = << >> THEN 0
    ELSE 2 * ParseBinary(SubSeq(b, 1, Len(b) - 1)) + b[Len(b)]

\* the loop of embedInvisibleWatermark that builds binaryString from textToEmbed
RECURSIVE TextToBinary(_)
TextToBinary(textToEmbed) ==
    IF textToEmbed = << >> THEN << >>
    ELSE PadStart8(ToBinary(Head(textToEmbed))) \o TextToBinary(Tail(textToEmbed))

\* binaryToText: full groups of 8 digits become one character each
RECURSIVE binaryToTextFrom(_, _)
binaryToTextFrom(binary, i) ==
    IF i >= Len(binary) THEN << >>
    ELSE LET byte == Substring(binary, i, i + 8)
         IN  (IF Len(byte) = 8 THEN <<ParseBinary(byte)>> ELSE << >>)
                 \o binaryToTextFrom(binary, i + 8)

binaryToText(binary) == binaryToTextFrom(binary, 0)

(***************************************************************************)
(* Pixel buffers.  A Uint8ClampedArray is a sequence of bytes; the source's *)
(* data[k] (0-based) is data[k + 1] here, and data.length is Len(data).    *)
(***************************************************************************)
\* data[dataIndex] | 1
SetLSB(byte) == IF byte % 2 = 0 THEN byte + 1 ELSE byte

\* ClearLSB with the mask's complement forgotten: data[dataIndex] & 1
ClearLSBWrongMask(byte) == byte % 2

\* data[dataIndex] & ~1
ClearLSB(byte) == byte - (byte % 2)

\* ctx.getImageData(0, 0, width, rows).data on a canvas holding px
getImageData(px, width, rows) == SubSeq(px, 1, 4 * width * rows)

\* ctx.putImageData(imageData, 0, 0): the leading rows are overwritten
putImageData(px, data) == data \o SubSeq(px, Len(data) + 1, Len(px))

\* embedStep that sets the LSB for a 1 and leaves the byte alone for a 0
embedStepOnlySets(st, binaryString, i) ==
    IF st.stopped THEN st
    ELSE LET di == IF (st.dataIndex + 1) % 4 = 0
                   THEN st.dataIndex + 1 ELSE st.dataIndex
         IN  IF di >= Len(st.data)
             THEN [st EXCEPT !.dataIndex = di, !.stopped = TRUE]
             ELSE LET bit  == binaryString[i + 1]
                      byte == IF bit = 1 THEN SetLSB(st.data[di + 1])
                                         ELSE st.data[di + 1]
                  IN  [data |-> [st.data EXCEPT ![di + 1] = byte],
                       dataIndex |-> di + 1, stopped |-> FALSE]

\* one iteration (loop variable i) of the for loop of embedIntoData; st holds
\* data and dataIndex, and stopped is set by the break
embedStep(st, binaryString, i) ==
    IF st.stopped THEN st
    ELSE LET di == IF (st.dataIndex + 1) % 4 = 0
                   THEN st.dataIndex + 1 ELSE st.dataIndex
         IN  IF di >= Len(st.data)
             THEN [st EXCEPT !.dataIndex = di, !.stopped = TRUE]
             ELSE LET bit  == binaryString[i + 1]
                      byte == IF bit = 1 THEN SetLSB(st.data[di + 1])
                                         ELSE ClearLSB(st.data[di + 1])
                  IN  [data |-> [st.data EXCEPT ![di + 1] = byte],
                       dataIndex |-> di + 1, stopped |-> FALSE]

\* the iterations lo .. hi - 1 of the for loop, in order
RECURSIVE embedLoop(_, _, _, _)
embedLoop(st, binaryString, lo, hi) ==
    IF hi <= lo THEN st
    ELSE IF hi = lo + 1 THEN embedStep(st, binaryString, lo)
    ELSE LET mid   == (lo + hi) \div 2
             first == embedLoop(st, binaryString, lo, mid)
         IN  IF first.stopped THEN first
             ELSE embedLoop(first, binaryString, mid, hi)

\* embedIntoData(data, binaryString): the buffer after the call
embedIntoData(data, binaryString) ==
    embedLoop([data |-> data, dataIndex |-> 0, stopped |-> FALSE],
              binaryString, 0, Len(binaryString)).data

(***************************************************************************)
(* Encoder                                                                 *)
(***************************************************************************)
\* const neededPixels = Math.ceil(binaryString.length / 3)
neededPixels(bitLength) == Ceil(bitLength, 3)

\* rowsToRead rounding down and without the margin row
rowsToReadNoMargin(bitLength, width, height) ==
    Min(height, neededPixels(bitLength) \div width)

\* rowsToRead without the margin row
rowsToReadExact(bitLength, width, height) ==
    Min(height, Ceil(neededPixels(bitLength), width))

\* const rowsToRead = Math.min(naturalHeight, Math.ceil(neededPixels / width) + 1)
rowsToRead(bitLength, width, height) ==
    Min(height, Ceil(neededPixels(bitLength), width) + 1)

\* CarrierCapacity counting the alpha bytes as carriers: data.length
CarrierCapacityAllBytes(data) == Len(data)

\* (data.length / 4) * 3
CarrierCapacity(data) == (Len(data) \div 4) * 3

\* toDataURL re-encoding in a lossy format, as optimizeImage does
toDataURLJpeg(width, height, px) ==
    [mimeType |-> "image/jpeg", width |-> width, height |-> height, px |-> px]

\* canvas.toDataURL('image/png') of a canvas holding px
toDataURL(width, height, px) ==
    [mimeType |-> "image/png", width |-> width, height |-> height, px |-> px]

\* no image bytes: the value slot of a pending or rejected promise
NoImage == [mimeType |-> "", width |-> 0, height |-> 0, px |-> << >>]

\* text + terminator, expanded to binaryString
embedBinaryString(text) == TextToBinary(text \o terminator)

\* image.onload of embedInvisibleWatermark: how the promise settles, and the
\* pixels the canvas holds when it does
embedOnload(base64Data, binaryString, ctx) ==
    LET width     == base64Data.width
        height    == base64Data.height
        drawn     == base64Data.px
        rows      == rowsToRead(Len(binaryString), width, height)
        data      == getImageData(drawn, width, rows)
        fullData  == getImageData(drawn, width, height)
    IN  IF ~ctx
        THEN [settled |-> "rejected", value |-> NoImage, canvas |-> << >>,
              path |-> "noContext", rowsRead |-> 0, rowsWritten |-> 0]
        ELSE IF Len(binaryString) > CarrierCapacity(data)
        THEN IF Len(binaryString) > CarrierCapacity(fullData)
             THEN [settled |-> "resolved", value |-> base64Data,
                   canvas |-> drawn, path |-> "tooSmall",
                   rowsRead |-> rows, rowsWritten |-> 0]
             ELSE LET px == putImageData(drawn,
                                embedIntoData(fullData, binaryString))
                  IN  [settled |-> "resolved",
                       value |-> toDataURL(width, height, px),
                       canvas |-> px, path |-> "full",
                       rowsRead |-> rows, rowsWritten |-> height]
        ELSE LET px == putImageData(drawn, embedIntoData(data, binaryString))
             IN  [settled |-> "resolved",
                  value |-> toDataURL(width, height, px),
                  canvas |-> px, path |-> "optimized",
                  rowsRead |-> rows, rowsWritten |-> rows]

(***************************************************************************)
(* Decoder                                                                 *)
(***************************************************************************)
\* string | null
Null == [isNull |-> TRUE, text |-> << >>]
Str(t) == [isNull |-> FALSE, text |-> t]

\* payloadBefore returning the decoded text with its terminator
payloadBeforeKeepsTerminator(decodedText, terminatorIndex) == decodedText

\* decodedText.substring(0, terminatorIndex)
payloadBefore(decodedText, terminatorIndex) ==
    Substring(decodedText, 0, terminatorIndex)

\* processDataStep looking for the terminator after every second character
processDataStepChecksLate(pixelData, st) ==
    IF st.ended \/ st.dataIndex >= Len(pixelData)
    THEN [st EXCEPT !.ended = TRUE]
    ELSE LET di == IF (st.dataIndex + 1) % 4 = 0
                   THEN st.dataIndex + 1 ELSE st.dataIndex
         IN  IF di >= Len(pixelData)
             THEN [st EXCEPT !.dataIndex = di, !.ended = TRUE]
             ELSE LET lsb == pixelData[di + 1] % 2
                      bin == Append(st.binaryString, lsb)
                      decodedText == binaryToText(bin)
                      terminatorIndex == IndexOf(decodedText, terminator)
                  IN  IF Len(bin) % 16 = 0 /\ terminatorIndex # -1
                      THEN [result |-> Str(payloadBefore(decodedText, terminatorIndex)),
                            binaryString |-> bin, dataIndex |-> di, ended |-> TRUE]
                      ELSE [result |-> Null, binaryString |-> bin,
                            dataIndex |-> di + 1, ended |-> FALSE]

\* one iteration of the while loop of processData; st holds the closure's
\* binaryString and dataIndex, the result, and whether the loop has ended
processDataStep(pixelData, st) ==
    IF st.ended \/ st.dataIndex >= Len(pixelData)
    THEN [st EXCEPT !.ended = TRUE]
    ELSE LET di == IF (st.dataIndex + 1) % 4 = 0
                   THEN st.dataIndex + 1 ELSE st.dataIndex
         IN  IF di >= Len(pixelData)
             THEN [st EXCEPT !.dataIndex = di, !.ended = TRUE]
             ELSE LET lsb == pixelData[di + 1] % 2
                      bin == Append(st.binaryString, lsb)
                      decodedText == binaryToText(bin)
                      terminatorIndex == IndexOf(decodedText, terminator)
                  IN  IF Len(bin) % 8 = 0 /\ terminatorIndex # -1
                      THEN [result |-> Str(payloadBefore(decodedText, terminatorIndex)),
                            binaryString |-> bin, dataIndex |-> di, ended |-> TRUE]
                      ELSE [result |-> Null, binaryString |-> bin,
                            dataIndex |-> di + 1, ended |-> FALSE]

\* n iterations of the while loop, in order
RECURSIVE processDataLoop(_, _, _)
processDataLoop(pixelData, st, n) ==
    IF n <= 0 THEN st
    ELSE IF n = 1 THEN processDataStep(pixelData, st)
    ELSE LET first == processDataLoop(pixelData, st, n \div 2)
         IN  IF first.ended THEN first
             ELSE processDataLoop(pixelData, first, n - (n \div 2))

\* processData(pixelData), entered with the closure's binaryString and
\* dataIndex: every iteration advances dataIndex, so the loop ends within
\* pixelData.length + 1 iterations
processData(pixelData, binaryString, dataIndex) ==
    processDataLoop(pixelData,
                    [result |-> Null, binaryString |-> binaryString,
                     dataIndex |-> dataIndex, ended |-> FALSE],
                    Len(pixelData) + 1)

\* const initialRows = Math.min(50, canvas.height)
PrefixRows == 50
initialRows(height) == Min(PrefixRows, height)

\* terminatorNotFound treating the absent terminator as an error
terminatorNotFoundRejects == [settled |-> "rejected", value |-> [isNull |-> TRUE, text |-> << >>]]

\* resolve(null): the terminator was not found
terminatorNotFound == [settled |-> "resolved", value |-> Null]

\* let binaryString = ''; let dataIndex = 0; (locals of the onload handler)
initialAccumulator == [binaryString |-> << >>, dataIndex |-> 0]

\* restartAccumulator continuing where the prefix scan stopped
restartAccumulatorContinues(first) ==
    [binaryString |-> first.binaryString, dataIndex |-> first.dataIndex]

\* binaryString = ''; dataIndex = 0; before the full-image scan
restartAccumulator(first) == [binaryString |-> << >>, dataIndex |-> 0]

\* needsFullScan with the comparison turned around
needsFullScanNever(height) == initialRows(height) > height

\* if (initialRows < canvas.height)
needsFullScan(height) == initialRows(height) < height

\* pixelDataAfterScan with every bit that was read cleared
pixelDataAfterScanConsumed(pixelData) ==
    [k \in DOMAIN pixelData |->
        IF k % 4 = 0 THEN pixelData[k] ELSE ClearLSB(pixelData[k])]

\* the buffer handed to processData when processData returns: the loop reads
\* pixelData[dataIndex] and assigns no element of pixelData
pixelDataAfterScan(pixelData) == pixelData

\* one call of processData as the handler saw it: the rows of the buffer, the
\* accumulator it was entered with and left with, its result, and whether
\* the buffer is as it was handed in
Scan(rows, entry, r, pixelData) ==
    [rows |-> rows, fromBits |-> Len(entry.binaryString),
     fromIndex |-> entry.dataIndex, binaryString |-> r.binaryString,
     dataIndex |-> r.dataIndex, result |-> r.result,
     pixelDataKept |-> pixelDataAfterScan(pixelData) = pixelData]

\* image.onload of decodeInvisibleWatermark: how the promise settles, and the
\* scans (calls of processData) it made, in order
decodeOnload(base64Data, ctx) ==
    LET width   == base64Data.width
        height  == base64Data.height
        drawn   == base64Data.px
        entry1  == initialAccumulator
        first   == processData(getImageData(drawn, width, initialRows(height)),
                               entry1.binaryString, entry1.dataIndex)
        entry2  == restartAccumulator(first)
        second  == processData(getImageData(drawn, width, height),
                               entry2.binaryString, entry2.dataIndex)
        scan1   == Scan(initialRows(height), entry1, first,
                        getImageData(drawn, width, initialRows(height)))
        scan2   == Scan(height, entry2, second,
                        getImageData(drawn, width, height))
    IN  IF ~ctx
        THEN [settled |-> "rejected", value |-> Null, canvas |-> << >>,
              scans |-> << >>]
        ELSE IF ~first.result.isNull
        THEN [settled |-> "resolved", value |-> first.result, canvas |-> drawn,
              scans |-> <<scan1>>]
        ELSE IF needsFullScan(height) /\ ~second.result.isNull
        THEN [settled |-> "resolved", value |-> second.result, canvas |-> drawn,
              scans |-> <<scan1, scan2>>]
        ELSE [settled |-> terminatorNotFound.settled,
              value |-> terminatorNotFound.value, canvas |-> drawn,
              scans |-> IF needsFullScan(height)
                        THEN <<scan1, scan2>> ELSE <<scan1>>]

(***************************************************************************)
(* Callers: processGeneratedImage and FingerprintChecker                   *)
(***************************************************************************)
\* "BeJeon"
CreatorMark == <<66, 101, 74, 101, 111, 110>>

\* const textToEmbed = !isCreator && userName ? userName : "BeJeon";
\* userName is string | null, and the empty string is falsy
textToEmbed(isCreator, userName) ==
    IF ~isCreator /\ ~userName.isNull /\ userName.text # << >>
    THEN userName.text ELSE CreatorMark

NotReturned == [state |-> "pending"]

\* processGeneratedImageAfter letting the rejection through
processGeneratedImageRethrows(base64Data, mimeType, embedded) ==
    IF embedded.settled = "resolved"
    THEN [state |-> "returned", base64Data |-> embedded.value,
          mimeType |-> "image/png"]
    ELSE [state |-> "rejected"]

\* processGeneratedImage after the await: the try block's return when the
\* embed promise resolved, the catch block's return when it rejected
processGeneratedImageAfter(base64Data, mimeType, embedded) ==
    IF embedded.settled = "resolved"
    THEN [state |-> "returned", base64Data |-> embedded.value,
          mimeType |-> "image/png"]
    ELSE [state |-> "returned", base64Data |-> base64Data,
          mimeType |-> mimeType]

\* the messages of the decoder's rejections
NoContextMessage == "Canvas context is not available for decoding."
LoadErrorMessage == "Failed to load image for decoding: [object Event]"

\* the state of FingerprintChecker before a file is chosen
InitialChecker ==
    [imageFile |-> FALSE, isChecking |-> FALSE, result |-> Null, error |-> ""]

\* handleFile up to the await of decodeInvisibleWatermark
handleFileStart(checker) ==
    [imageFile |-> TRUE, isChecking |-> TRUE, result |-> Null, error |-> ""]

\* handleFile after the await: setResult or setError, then finally
handleFileAfter(checker, decoded, message) ==
    IF decoded.settled = "resolved"
    THEN [checker EXCEPT !.result = decoded.value, !.isChecking = FALSE]
    ELSE [checker EXCEPT !.error = message, !.isChecking = FALSE]

\* renderResult: which of its branches renders
renderResult(checker) ==
    IF checker.isChecking THEN "checking"
    ELSE IF checker.error # "" THEN "error"
    ELSE IF ~checker.result.isNull /\ checker.result.text # << >> THEN "found"
    ELSE IF checker.result.isNull /\ checker.imageFile THEN "notFound"
    ELSE "nothing"

(***************************************************************************)
(* Inputs                                                                  *)
(***************************************************************************)
\* character codes the enumerated payloads are built from:
\* 'a', '|' and U+AC00 (a Hangul syllable)
Alphabet == {97, 124, 44032}

RECURSIVE SeqsUpTo(_, _)
SeqsUpTo(S, n) ==
    IF n = 0 THEN {<< >>}
    ELSE LET shorter == SeqsUpTo(S, n - 1)
         IN  shorter \cup { Append(t, c) : t \in shorter, c \in S }

\* "||END", "x||END|", "a||END||b", "alice", "BeJeon", "abcdefghijkl",
\* U+00E9 (Latin-1) and U+AC00 followed by "||END||"
NamedPayloads ==
    { <<233>>,
      <<44032, 124, 124, 69, 78, 68, 124, 124>>,
      <<124, 124, 69, 78, 68>>,
      <<120, 124, 124, 69, 78, 68, 124>>,
      <<97, 124, 124, 69, 78, 68, 124, 124, 98>>,
      <<97, 108, 105, 99, 101>>,
      <<66, 101, 74, 101, 111, 110>>,
      <<97, 98, 99, 100, 101, 102, 103, 104, 105, 106, 107, 108>> }

Payloads == SeqsUpTo(Alphabet, MaxLen) \cup NamedPayloads

\* payloads embedded on top of an earlier watermark: "a", "alice",
\* "abcdefghijkl" and U+AC00
OverlayPayloads ==
    { <<97>>, <<97, 108, 105, 99, 101>>,
      <<97, 98, 99, 100, 101, 102, 103, 104, 105, 106, 107, 108>>,
      <<44032>> }

\* sessionStorage.getItem('loggedInUser'): null, '', 'Creator' (set by the
\* creator login), or a user name
SessionUsers ==
    { [isNull |-> TRUE, text |-> << >>],
      [isNull |-> FALSE, text |-> << >>],
      [isNull |-> FALSE, text |-> <<67, 114, 101, 97, 116, 111, 114>>],
      [isNull |-> FALSE, text |-> <<97, 108, 105, 99, 101>>],
      [isNull |-> FALSE, text |-> <<124, 124, 69, 78, 68>>],
      [isNull |-> FALSE, text |-> <<44032>>] }

\* width and height of the images
Dims ==
    { <<1, 1>>, <<19, 1>>, <<4, 5>>, <<20, 3>>, <<5, 8>>, <<8, 4>>,
      <<1, 51>>, <<1, 53>> }

MimeTypes == {"image/png", "image/jpeg"}

\* the byte at 0-based index k of the raster of picture p ("blank" is
\* transparent black)
PictureByte(p, k) ==
    CASE p = "ramp"  -> (k * 37 + 11) % 256
      [] p = "bright" -> IF k % 4 = 3 THEN 255 - (k % 5) ELSE 255 - ((k * k) % 7)
      [] OTHER        -> 0

Pictures == {"ramp", "bright", "blank"}

Image(mimeType, width, height, p) ==
    [mimeType |-> mimeType, width |-> width, height |-> height,
     px |-> [k \in 1..(4 * width * height) |-> PictureByte(p, k - 1)]]

Images ==
    { Image(m, d[1], d[2], p) : m \in MimeTypes, d \in Dims, p \in Pictures }

Unsettled == "pending"

(***************************************************************************)
(* State                                                                   *)
(***************************************************************************)
VARIABLES
    pc,             \* where the session is: idle, or in / after a call
    original,       \* the image the session started from
    text,           \* the payload given to embedInvisibleWatermark
    binaryString,   \* the encoder's binaryString
    canvas,         \* the pixels of the running call's canvas
    embedResult,    \* how the embed promise settled, and its value
    decodeInput,    \* base64Data given to decodeInvisibleWatermark
    decodeResult,   \* how the decode promise settled, and its value
    scans,          \* the processData scans of the latest decode handler
    loads,          \* how often the running call assigned image.src
    event,          \* what the rasterization did: the callback that ran
    caller,         \* who called embedInvisibleWatermark
    session,        \* sessionStorage: isCreator and loggedInUser as read
    under,          \* the image and payload the input of the embed call was made from
    processed,      \* what processGeneratedImage returned
    checker,        \* the state of the FingerprintChecker component
    calls,          \* concurrent calls: the closure of each call, by start order
    stored,         \* localStorage 'activityHistory': the entries, first to last
    loggers,        \* the logActivity calls, by start order
    clock,          \* Date.now(): how many entries have been created
    wipedAt         \* the clock when the stored log was last cleared

codecVars == <<original, text, binaryString, canvas, embedResult,
               decodeInput, decodeResult, scans, loads, event>>
callerVars == <<caller, session, under, processed, checker>>
seqVars == <<pc, codecVars, callerVars>>
logVars == <<stored, loggers, clock, wipedAt>>
concVars == <<calls, logVars>>
vars == <<seqVars, concVars>>

NoResult == [settled |-> Unsettled]

\* the input of the embed call carries no watermark of an earlier call
NotWatermarked == [image |-> NoImage, text |-> << >>, marked |-> FALSE]

\* sessionStorage before a login: no item is set
NoSession == [isCreator |-> FALSE, loggedInUser |-> Null]

\* the studio before any call
StudioInit ==
    /\ pc = "idle"
    /\ original = NoImage
    /\ text = << >>
    /\ binaryString = << >>
    /\ canvas = << >>
    /\ embedResult = NoResult
    /\ decodeInput = NoImage
    /\ decodeResult = NoResult
    /\ scans = << >>
    /\ loads = 0
    /\ event = "none"
    /\ caller = "none"
    /\ session = NoSession
    /\ under = NotWatermarked
    /\ processed = NotReturned
    /\ checker = InitialChecker
    /\ calls = << >>

Init ==
    /\ StudioInit
    /\ stored = << >>
    /\ loggers = << >>
    /\ clock = 0
    /\ wipedAt = 0

\* embedInvisibleWatermark(base64Data, mimeType, text) up to image.src = ...
EmbedCall ==
    /\ pc = "idle"
    /\ \E img \in Images, t \in Payloads :
          /\ original' = img
          /\ text' = t
          /\ binaryString' = embedBinaryString(t)
    /\ pc' = "embedLoading"
    /\ loads' = 1
    /\ caller' = "direct"
    /\ session' = NoSession
    /\ under' = NotWatermarked
    /\ UNCHANGED <<canvas, embedResult, decodeInput, decodeResult, scans, event,
                   processed, checker, concVars>>

\* processGeneratedImage(base64Data, mimeType) up to the await: the payload
\* comes from sessionStorage
ProcessCall ==
    /\ pc = "idle"
    /\ \E img \in Images, isCreator \in BOOLEAN, userName \in SessionUsers :
          /\ session' = [isCreator |-> isCreator, loggedInUser |-> userName]
          /\ under' = NotWatermarked
          /\ original' = img
          /\ text' = textToEmbed(isCreator, userName)
          /\ binaryString' = embedBinaryString(textToEmbed(isCreator, userName))
    /\ pc' = "embedLoading"
    /\ loads' = 1
    /\ caller' = "process"
    /\ UNCHANGED <<canvas, embedResult, decodeInput, decodeResult, scans, event,
                   processed, checker, concVars>>

\* embedInvisibleWatermark called on the output of an earlier call, which
\* carries the payload of that call
EmbedOnTop ==
    /\ pc = "embedSettled"
    /\ caller = "direct"
    /\ ~under.marked
    /\ embedResult.settled = "resolved"
    /\ embedResult.path \in {"full", "optimized"}
    /\ \E t \in OverlayPayloads :
          /\ text' = t
          /\ binaryString' = embedBinaryString(t)
    /\ under' = [image |-> original, text |-> text, marked |-> TRUE]
    /\ original' = embedResult.value
    /\ embedResult' = NoResult
    /\ canvas' = << >>
    /\ event' = "none"
    /\ pc' = "embedLoading"
    /\ UNCHANGED <<decodeInput, decodeResult, scans, loads, caller, session,
                   processed, checker, concVars>>

\* image.onload of the embed call; the 2D context may be unavailable
EmbedOnload ==
    /\ pc = "embedLoading"
    /\ \E ctx \in BOOLEAN :
          LET r == embedOnload(original, binaryString, ctx)
          IN  /\ embedResult' = [settled |-> r.settled, value |-> r.value,
                                 path |-> r.path, rowsRead |-> r.rowsRead,
                                 rowsWritten |-> r.rowsWritten]
              /\ canvas' = r.canvas
              /\ event' = IF ctx THEN "load" ELSE "noContext"
    /\ pc' = "embedSettled"
    /\ UNCHANGED <<original, text, binaryString, decodeInput, decodeResult, scans,
                   loads, callerVars, concVars>>

\* image.onload of the embed call when getImageData, putImageData or
\* toDataURL throws: the exception leaves the handler, nothing settles the
\* promise
EmbedOnloadThrows ==
    /\ pc = "embedLoading"
    /\ event' = "throw"
    /\ pc' = "embedHung"
    /\ UNCHANGED <<original, text, binaryString, canvas, embedResult,
                   decodeInput, decodeResult, scans, loads, callerVars, concVars>>

\* image.onerror of the embed call assigning image.src once more
EmbedOnerrorRetries ==
    /\ pc = "embedLoading"
    /\ loads < 2
    /\ loads' = loads + 1
    /\ event' = "error"
    /\ UNCHANGED <<pc, original, text, binaryString, canvas, embedResult,
                   decodeInput, decodeResult, scans, callerVars, concVars>>

\* image.onerror of the embed call
EmbedOnerror ==
    /\ pc = "embedLoading"
    /\ embedResult' = [settled |-> "rejected", value |-> NoImage,
                       path |-> "loadError", rowsRead |-> 0,
                       rowsWritten |-> 0]
    /\ event' = "error"
    /\ pc' = "embedSettled"
    /\ UNCHANGED <<original, text, binaryString, canvas, decodeInput,
                   decodeResult, scans, loads, callerVars, concVars>>

\* processGeneratedImage resumes after the await
ProcessReturn ==
    /\ pc = "embedSettled"
    /\ caller = "process"
    /\ processed = NotReturned
    /\ processed' = processGeneratedImageAfter(original, original.mimeType,
                                               embedResult)
    /\ UNCHANGED <<pc, codecVars, caller, session, under, checker,
                   concVars>>

\* handleFile -> decodeInvisibleWatermark on the bytes the embed call
\* resolved with
DecodeEmbedded ==
    /\ pc = "embedSettled"
    /\ embedResult.settled = "resolved"
    /\ decodeInput' = embedResult.value
    /\ canvas' = << >>
    /\ pc' = "decodeLoading"
    /\ loads' = 1
    /\ event' = "none"
    /\ checker' = handleFileStart(checker)
    /\ UNCHANGED <<original, text, binaryString, embedResult, decodeResult, scans,
                   caller, session, under, processed,
                   concVars>>

\* handleFile -> decodeInvisibleWatermark on an image that was never
\* watermarked
DecodeFresh ==
    /\ pc = "idle"
    /\ \E img \in Images :
          /\ original' = img
          /\ decodeInput' = img
    /\ pc' = "decodeLoading"
    /\ loads' = 1
    /\ checker' = handleFileStart(checker)
    /\ UNCHANGED <<text, binaryString, canvas, embedResult, decodeResult, scans,
                   event, caller, session, under, processed,
                   concVars>>

\* image.onload of the decode call
DecodeOnload ==
    /\ pc = "decodeLoading"
    /\ \E ctx \in BOOLEAN :
          LET r == decodeOnload(decodeInput, ctx)
          IN  /\ decodeResult' = [settled |-> r.settled, value |-> r.value]
              /\ canvas' = r.canvas
              /\ scans' = r.scans
              /\ event' = IF ctx THEN "load" ELSE "noContext"
    /\ pc' = "decodeSettled"
    /\ UNCHANGED <<original, text, binaryString, embedResult, decodeInput,
                   loads, callerVars, concVars>>

\* image.onload of the decode call when getImageData throws
DecodeOnloadThrows ==
    /\ pc = "decodeLoading"
    /\ event' = "throw"
    /\ pc' = "decodeHung"
    /\ UNCHANGED <<original, text, binaryString, canvas, embedResult,
                   decodeInput, decodeResult, scans, loads, callerVars, concVars>>

\* image.onerror of the decode call
DecodeOnerror ==
    /\ pc = "decodeLoading"
    /\ decodeResult' = [settled |-> "rejected", value |-> Null]
    /\ event' = "error"
    /\ pc' = "decodeSettled"
    /\ UNCHANGED <<original, text, binaryString, canvas, embedResult,
                   decodeInput, scans, loads, callerVars, concVars>>

\* handleFile resumes after the await of decodeInvisibleWatermark
CheckerContinue ==
    /\ pc = "decodeSettled"
    /\ checker.isChecking
    /\ checker' = handleFileAfter(checker, decodeResult,
                                  IF event = "noContext" THEN NoContextMessage
                                  ELSE LoadErrorMessage)
    /\ UNCHANGED <<pc, codecVars, caller, session, under, processed,
                   concVars>>

\* the session's call has settled and its values are dropped
Finish ==
    /\ \/ pc = "embedSettled"
       \/ pc = "decodeSettled" /\ ~checker.isChecking
    /\ pc' = "idle"
    /\ original' = NoImage
    /\ text' = << >>
    /\ binaryString' = << >>
    /\ canvas' = << >>
    /\ embedResult' = NoResult
    /\ decodeInput' = NoImage
    /\ decodeResult' = NoResult
    /\ scans' = << >>
    /\ loads' = 0
    /\ event' = "none"
    /\ caller' = "none"
    /\ session' = NoSession
    /\ under' = NotWatermarked
    /\ processed' = NotReturned
    /\ checker' = InitialChecker
    /\ UNCHANGED concVars

Next ==
    \/ EmbedCall
    \/ ProcessCall
    \/ EmbedOnTop
    \/ EmbedOnload
    \/ EmbedOnloadThrows
    \/ EmbedOnerror
    \/ ProcessReturn
    \/ DecodeEmbedded
    \/ DecodeFresh
    \/ DecodeOnload
    \/ DecodeOnloadThrows
    \/ DecodeOnerror
    \/ CheckerContinue
    \/ Finish

Spec == Init /\ [][Next]_vars

\* the browser delivers the load event or the error event of every image
\* whose src was assigned, and resumes every function whose awaited promise
\* has settled
FairSpec ==
    /\ Spec
    /\ WF_vars(EmbedOnload \/ EmbedOnloadThrows \/ EmbedOnerror)
    /\ WF_vars(DecodeOnload \/ DecodeOnloadThrows \/ DecodeOnerror)
    /\ WF_vars(ProcessReturn)
    /\ WF_vars(CheckerContinue)

(***************************************************************************)
(* Concurrent calls.  A call runs up to image.src = ... and returns its    *)
(* pending promise; its load or error callback runs later, to completion,  *)
(* on the one JavaScript thread.  Calls therefore interleave only between  *)
(* their start and their callback.                                         *)
(***************************************************************************)
\* how many calls are started
MaxCalls == 2

ConcImages ==
    { Image("image/png", 8, 4, "ramp"), Image("image/jpeg", 5, 8, "bright") }

\* "a"
ConcPayloads == { <<97>> }

\* images never watermarked, and outputs of the encoder
ConcDecodeInputs ==
    ConcImages \cup
    { embedOnload(img, embedBinaryString(t), TRUE).value :
         img \in ConcImages, t \in ConcPayloads }

\* the closure of a call at image.src = ...: its arguments, the encoder's
\* binaryString, and the locals its load callback will create
NewCall(op, base64Data, t) ==
    [op |-> op, base64Data |-> base64Data, text |-> t,
     binaryString |-> IF op = "embed" THEN embedBinaryString(t) ELSE << >>,
     state |-> "loading", event |-> "none", result |-> NoResult,
     canvas |-> << >>, scans |-> << >>]

\* closure reading the variables of the call started last
closureShared(i) == calls[Len(calls)]

\* the variables the callbacks of call i close over
closure(i) == calls[i]

ConcEmbedCall ==
    /\ Len(calls) < MaxCalls
    /\ \E img \in ConcImages, t \in ConcPayloads :
          calls' = Append(calls, NewCall("embed", img, t))
    /\ UNCHANGED <<seqVars, logVars>>

ConcDecodeCall ==
    /\ Len(calls) < MaxCalls
    /\ \E img \in ConcDecodeInputs :
          calls' = Append(calls, NewCall("decode", img, << >>))
    /\ UNCHANGED <<seqVars, logVars>>

\* image.onload of call i, an embed call
ConcEmbedOnload(i) ==
    /\ calls[i].state = "loading"
    /\ calls[i].op = "embed"
    /\ \E ctx \in BOOLEAN :
          LET r == embedOnload(closure(i).base64Data, closure(i).binaryString,
                               ctx)
          IN  calls' = [calls EXCEPT
                  ![i].state = "settled",
                  ![i].event = IF ctx THEN "load" ELSE "noContext",
                  ![i].result = [settled |-> r.settled, value |-> r.value],
                  ![i].canvas = r.canvas]
    /\ UNCHANGED <<seqVars, logVars>>

\* image.onload of call i, a decode call
ConcDecodeOnload(i) ==
    /\ calls[i].state = "loading"
    /\ calls[i].op = "decode"
    /\ \E ctx \in BOOLEAN :
          LET r == decodeOnload(closure(i).base64Data, ctx)
          IN  calls' = [calls EXCEPT
                  ![i].state = "settled",
                  ![i].event = IF ctx THEN "load" ELSE "noContext",
                  ![i].result = [settled |-> r.settled, value |-> r.value],
                  ![i].canvas = r.canvas,
                  ![i].scans = r.scans]
    /\ UNCHANGED <<seqVars, logVars>>

\* image.onerror of call i
ConcOnerror(i) ==
    /\ calls[i].state = "loading"
    /\ calls' = [calls EXCEPT
          ![i].state = "settled",
          ![i].event = "error",
          ![i].result = [settled |-> "rejected",
                         value |-> IF calls[i].op = "embed"
                                   THEN NoImage ELSE Null]]
    /\ UNCHANGED <<seqVars, logVars>>

ConcNext ==
    \/ ConcEmbedCall
    \/ ConcDecodeCall
    \/ \E i \in DOMAIN calls : ConcEmbedOnload(i)
    \/ \E i \in DOMAIN calls : ConcDecodeOnload(i)
    \/ \E i \in DOMAIN calls : ConcOnerror(i)

ConcSpec == Init /\ [][ConcNext]_vars

(***************************************************************************)
(* FingerprintChecker with several files.  The file input stays enabled    *)
(* while a check runs, so handleFile can be entered again before the       *)
(* decode call of an earlier file has settled.  The continuation of        *)
(* handleFile runs as a microtask right after the callback that settles    *)
(* its decode promise, before any other callback.                          *)
(***************************************************************************)
\* the message handleFile's catch block receives for the rejection of f
RejectionMessage(f) ==
    IF f.event = "noContext" THEN NoContextMessage ELSE LoadErrorMessage

\* handleFile(file) up to the await of decodeInvisibleWatermark
SelectFile ==
    /\ Len(calls) < MaxCalls
    /\ \E img \in ConcDecodeInputs :
          calls' = Append(calls, NewCall("decode", img, << >>))
    /\ checker' = handleFileStart(checker)
    /\ UNCHANGED <<pc, codecVars, caller, session, under, processed, logVars>>

\* image.onload of the decode call of file i, then the rest of its handleFile
CheckOnload(i) ==
    /\ calls[i].state = "loading"
    /\ \E ctx \in BOOLEAN :
          LET r == decodeOnload(closure(i).base64Data, ctx)
              f == [calls[i] EXCEPT
                      !.state = "settled",
                      !.event = IF ctx THEN "load" ELSE "noContext",
                      !.result = [settled |-> r.settled, value |-> r.value],
                      !.canvas = r.canvas,
                      !.scans = r.scans]
          IN  /\ calls' = [calls EXCEPT ![i] = f]
              /\ checker' = handleFileAfter(checker, f.result,
                                            RejectionMessage(f))
    /\ UNCHANGED <<pc, codecVars, caller, session, under, processed, logVars>>

\* image.onerror of the decode call of file i, then the rest of its handleFile
CheckOnerror(i) ==
    /\ calls[i].state = "loading"
    /\ LET f == [calls[i] EXCEPT
                    !.state = "settled",
                    !.event = "error",
                    !.result = [settled |-> "rejected", value |-> Null]]
       IN  /\ calls' = [calls EXCEPT ![i] = f]
           /\ checker' = handleFileAfter(checker, f.result,
                                         RejectionMessage(f))
    /\ UNCHANGED <<pc, codecVars, caller, session, under, processed, logVars>>

CheckerNext ==
    \/ SelectFile
    \/ \E i \in DOMAIN calls : CheckOnload(i)
    \/ \E i \in DOMAIN calls : CheckOnerror(i)

CheckerSpec == Init /\ [][CheckerNext]_vars

(***************************************************************************)
(* The activity log (services/activityLog.ts).  logActivity is suspended   *)
(* while its thumbnails are made; what follows the last await, from the    *)
(* creation of the entry to localStorage.setItem, runs without suspension. *)
(***************************************************************************)
\* const MAX_LOG_ENTRIES = 50
MAX_LOG_ENTRIES == 50

\* how many logActivity calls are started
MaxLogCalls == 3

\* the lengths of the log that earlier sessions left in localStorage
InitialLogLengths == {0, 1, 49, 50}

\* a log of n entries written by earlier calls, newest first
StoredLog(n) == [k \in 1..n |-> [stamp |-> n + 1 - k, call |-> 0]]

LogInit ==
    /\ StudioInit
    /\ \E n \in InitialLogLengths :
          /\ stored = StoredLog(n)
          /\ clock = n
    /\ loggers = << >>
    /\ wipedAt = 0

\* Array.prototype.slice(0, n)
Slice(s, n) == SubSeq(s, 1, Min(n, Len(s)))

\* cappedLog keeping every entry
cappedLogUncapped(updatedLog) == updatedLog

\* const cappedLog = updatedLog.slice(0, MAX_LOG_ENTRIES)
cappedLog(updatedLog) == Slice(updatedLog, MAX_LOG_ENTRIES)

\* currentLog read when the call started, before the thumbnails
currentLogStale(i) == loggers[i].seen

\* const currentLog = getActivityLog(), read right before the write
currentLog(i) == stored

\* what localStorage holds after the second try block of logActivity, for
\* each behaviour of setItem: it succeeds ("ok"), throws QuotaExceededError
\* once ("quota") or also on the retry ("quotaTwice"), or throws another
\* error ("error")
StorageOutcomes == {"ok", "quota", "quotaTwice", "error"}

storedAfter(i, newLogEntry, outcome) ==
    CASE outcome = "ok"    -> cappedLog(<<newLogEntry>> \o currentLog(i))
      [] outcome = "quota" -> <<newLogEntry>>
      [] OTHER             -> stored

\* logActivity(activity) up to its first await, or to its return when
\* sessionStorage has no loggedInUser
LogCall ==
    /\ Len(loggers) < MaxLogCalls
    /\ \E hasUser \in BOOLEAN :
          loggers' = Append(loggers,
                        [state |-> IF hasUser THEN "thumbnails" ELSE "noUser",
                         seen |-> stored, storage |-> "none",
                         entry |-> [stamp |-> 0, call |-> 0]])
    /\ UNCHANGED <<seqVars, calls, stored, clock, wipedAt>>

\* the thumbnails of call i are made: the entry is created and written
LogWrite(i) ==
    /\ loggers[i].state = "thumbnails"
    /\ \E outcome \in StorageOutcomes :
          LET newLogEntry == [stamp |-> clock + 1, call |-> i]
          IN  /\ stored' = storedAfter(i, newLogEntry, outcome)
              /\ loggers' = [loggers EXCEPT
                    ![i].state = IF outcome \in {"ok", "quota"}
                                 THEN "stored" ELSE "notStored",
                    ![i].storage = outcome,
                    ![i].entry = newLogEntry]
    /\ clock' = clock + 1
    /\ UNCHANGED <<seqVars, calls, wipedAt>>

\* createImageThumbnail of call i rejects: logActivity returns without
\* logging
LogThumbnailFails(i) ==
    /\ loggers[i].state = "thumbnails"
    /\ loggers' = [loggers EXCEPT ![i].state = "thumbnailFailed"]
    /\ UNCHANGED <<seqVars, calls, stored, clock, wipedAt>>

\* clearActivityLog(): removeItem succeeds, or throws and false is returned
ClearLog ==
    /\ stored # << >>
    /\ \E removed \in BOOLEAN :
          /\ stored' = IF removed THEN << >> ELSE stored
          /\ wipedAt' = IF removed THEN clock ELSE wipedAt
    /\ UNCHANGED <<seqVars, calls, loggers, clock>>

LogNext ==
    \/ LogCall
    \/ \E i \in DOMAIN loggers : LogWrite(i)
    \/ \E i \in DOMAIN loggers : LogThumbnailFails(i)
    \/ ClearLog

LogSpec == LogInit /\ [][LogNext]_vars

(***************************************************************************)
(* Vocabulary of the properties                                            *)
(***************************************************************************)
IsAscii(t) == \A i \in 1..Len(t) : t[i] < 128

\* 8 * (len(P) + 7) <= 3 * w * h
Fits(t, img) == 8 * (Len(t) + Len(terminator)) <= 3 * img.width * img.height

\* bit j (0 = least significant) of n
Bit(n, j) == (n \div (2 ^ j)) % 2

\* 0-based index of the k-th (k = 0, 1, ...) non-alpha byte
CarrierIndex(k) == k + (k \div 3)

\* the LSBs of all non-alpha bytes of px, in row-major RGBA order
CarrierLSBs(px) ==
    [k \in 1..((Len(px) \div 4) * 3) |-> px[CarrierIndex(k - 1) + 1] % 2]

\* the carrier LSBs grouped into 8-bit MSB-first characters from bit 0
CarrierText(px) ==
    LET bits  == CarrierLSBs(px)
        chars == Len(bits) \div 8
    IN  [c \in 1..chars |->
            LET b(j) == bits[8 * (c - 1) + j]
            IN  128 * b(1) + 64 * b(2) + 32 * b(3) + 16 * b(4)
                  + 8 * b(5) + 4 * b(6) + 2 * b(7) + b(8)]

IsProperPrefix(s, t) == Len(s) < Len(t) /\ s = SubSeq(t, 1, Len(s))

\* the embed call ran its onload handler with a 2D context
EmbedRan == pc = "embedSettled" /\ embedResult.path \in {"tooSmall", "full", "optimized"}

\* the embed call wrote the bitstream into the canvas
Embedded == pc = "embedSettled" /\ embedResult.path \in {"full", "optimized"}

\* the decode call of the encoder's output has resolved
DecodedEmbedded ==
    /\ pc = "decodeSettled"
    /\ embedResult.settled = "resolved"
    /\ embedResult.path \in {"full", "optimized"}
    /\ decodeResult.settled = "resolved"

(***************************************************************************)
(* Properties                                                              *)
(***************************************************************************)
\* C1: decoding the encoder's output returns exactly the payload, for every
\* ASCII payload whose bitstream fits the image
C1_RoundTrip ==
    (DecodedEmbedded /\ IsAscii(text) /\ Fits(text, original))
        => decodeResult.value = Str(text)

\* C2: when the terminator does not occur in the payload (and the payload
\* fits), decoding the encoder's output does not return a proper prefix of
\* the payload
C2_NoEarlyTruncation ==
    (DecodedEmbedded /\ Fits(text, original) /\ IndexOf(text, terminator) = -1)
        => ~(/\ ~decodeResult.value.isNull
             /\ IsProperPrefix(decodeResult.value.text, text))

\* C3: when 8 * (len(payload) + 7) exceeds 3 * width * height, the embed call
\* resolves with exactly the input bytes and no pixel of the canvas differs
\* from the input image
C3_ShortfallNoOp ==
    (EmbedRan /\ ~Fits(text, original))
        => /\ embedResult.settled = "resolved"
           /\ embedResult.value = original
           /\ canvas = original.px

C3_Witness ==
    /\ EmbedRan
    /\ ~Fits(text, original)
    /\ embedResult.settled = "resolved"
    /\ original.mimeType = "image/jpeg"
    /\ original.width > 1

\* the full-image embedding branch (line 647) is never taken
FullPathNeverTaken == pc = "embedSettled" => embedResult.path # "full"

\* C5: after embedding N bits every byte keeps bits 1..7, every alpha byte
\* keeps all 8 bits, and so does every byte after the N-th non-alpha byte
C5_OnlyIntendedLSBs ==
    Embedded =>
        LET N == Len(binaryString)
        IN  /\ Len(canvas) = Len(original.px)
            /\ \A k \in 0..(Len(canvas) - 1) :
                  /\ canvas[k + 1] \div 2 = original.px[k + 1] \div 2
                  /\ (k % 4 = 3) => canvas[k + 1] = original.px[k + 1]
                  /\ (k > CarrierIndex(N - 1)) => canvas[k + 1] = original.px[k + 1]

C5_Witness ==
    /\ Embedded
    /\ canvas # original.px
    /\ rowsToRead(Len(binaryString), original.width, original.height)
          < original.height
    /\ \E k \in 0..(Len(canvas) - 1) :
          k <= CarrierIndex(Len(binaryString) - 1) /\ k % 4 # 3
             /\ canvas[k + 1] # original.px[k + 1]

\* C6: bit k of the bitstream is bit (7 - k mod 8) of the code of character
\* floor(k / 8) of payload + terminator, the encoder stores it in the LSB of
\* byte k + floor(k / 3), and the decoder reads its k-th bit from that byte
C6_WireFormat ==
    /\ Embedded =>
          LET embeddedText == text \o terminator
          IN  \A k \in 0..(Len(binaryString) - 1) :
                 /\ k \div 8 < Len(embeddedText)
                 /\ binaryString[k + 1] = Bit(embeddedText[(k \div 8) + 1], 7 - (k % 8))
                 /\ canvas[CarrierIndex(k) + 1] % 2 = binaryString[k + 1]
    /\ (pc = "decodeSettled" /\ decodeResult.settled = "resolved") =>
          \A s \in 1..Len(scans) :
             \A k \in 0..(Len(scans[s].binaryString) - 1) :
                scans[s].binaryString[k + 1]
                    = decodeInput.px[CarrierIndex(k) + 1] % 2

\* C7: the encoder's bitstream has length exactly 8 * (payload length + 7)
C7_BitLength ==
    pc \in {"embedLoading", "embedSettled"}
        => Len(binaryString) = 8 * (Len(text) + Len(terminator))

\* C8: a non-null decode result is the text before the first occurrence of
\* the terminator in the carrier text of the image: it does not contain the
\* terminator and the terminator follows it immediately
C8_PayloadBeforeFirstTerminator ==
    (pc = "decodeSettled" /\ decodeResult.settled = "resolved"
        /\ ~decodeResult.value.isNull)
    => LET S == decodeResult.value.text
           decoded == CarrierText(decodeInput.px)
       IN  /\ IndexOf(decoded, terminator) = Len(S)
           /\ IndexOf(S, terminator) = -1
           /\ SubSeq(decoded, 1, Len(S) + Len(terminator)) = S \o terminator

C8_Witness ==
    /\ pc = "decodeSettled"
    /\ decodeResult.settled = "resolved"
    /\ ~decodeResult.value.isNull
    /\ Len(decodeResult.value.text) > 0
    /\ Len(scans) = 2

\* C9: when the carrier text of a rasterized image does not contain the
\* terminator, the decode call resolves with null
C9_AbsentIsNull ==
    (pc = "decodeSettled" /\ scans # << >>
        /\ IndexOf(CarrierText(decodeInput.px), terminator) = -1)
    => decodeResult = [settled |-> "resolved", value |-> Null]

C9_Witness ==
    /\ pc = "decodeSettled"
    /\ Len(scans) = 2
    /\ IndexOf(CarrierText(decodeInput.px), terminator) = -1
    /\ decodeResult = [settled |-> "resolved", value |-> Null]

C11_FailOpen ==
    /\ processed.state # "rejected"
    /\ (/\ caller = "process"
        /\ embedResult.settled = "rejected"
        /\ processed.state # "pending")
           => /\ processed.state = "returned"
              /\ processed.base64Data = original
              /\ processed.mimeType = original.mimeType

C11_Witness ==
    /\ caller = "process"
    /\ embedResult.settled = "rejected"
    /\ event = "noContext"
    /\ original.mimeType = "image/jpeg"
    /\ processed.state = "returned"

InCall == pc \in {"embedLoading", "embedSettled", "embedHung",
                  "decodeLoading", "decodeSettled", "decodeHung"}

\* C12: when the image fails to load or the 2D context is unavailable,
\* embedInvisibleWatermark and decodeInvisibleWatermark each reject, and
\* every call assigns image.src exactly once
C12_FailureSurfacedOnce ==
    /\ (pc = "embedSettled" /\ event \in {"error", "noContext"})
          => embedResult.settled = "rejected"
    /\ (pc = "decodeSettled" /\ event \in {"error", "noContext"})
          => decodeResult.settled = "rejected"
    /\ InCall => loads = 1

C12_Witness ==
    /\ pc = "embedSettled"
    /\ event = "error"
    /\ embedResult.settled = "rejected"
    /\ loads = 1

\* C13: every started encode call and every started decode call eventually
\* settles, whatever the rasterization does: load, load failure, missing
\* context, or a pixel read/write that throws inside the load callback
C13_EventuallySettles ==
    /\ (pc = "embedLoading") ~> (embedResult.settled # Unsettled)
    /\ (pc = "decodeLoading") ~> (decodeResult.settled # Unsettled)

\* what a call with the arguments of f yields when it runs alone and the
\* rasterization behaves as it did for f
Alone(f) ==
    IF f.event = "error"
    THEN [result |-> [settled |-> "rejected",
                      value |-> IF f.op = "embed" THEN NoImage ELSE Null],
          canvas |-> << >>, scans |-> << >>]
    ELSE IF f.op = "embed"
    THEN LET r == embedOnload(f.base64Data, embedBinaryString(f.text),
                              f.event = "load")
         IN  [result |-> [settled |-> r.settled, value |-> r.value],
              canvas |-> r.canvas, scans |-> << >>]
    ELSE LET r == decodeOnload(f.base64Data, f.event = "load")
         IN  [result |-> [settled |-> r.settled, value |-> r.value],
              canvas |-> r.canvas, scans |-> r.scans]

SettledDecodes ==
    { i \in DOMAIN calls :
         /\ calls[i].op = "decode"
         /\ calls[i].state = "settled"
         /\ calls[i].event = "load" }

\* after a decode the pixel buffers and the canvas are as the image gave
\* them, and two decodes of the same bytes have the same result
C15_SameResultNothingWritten ==
    \A i \in SettledDecodes :
       /\ \A s \in DOMAIN calls[i].scans : calls[i].scans[s].pixelDataKept
       /\ calls[i].canvas = calls[i].base64Data.px
       /\ \A j \in SettledDecodes :
             calls[j].base64Data = calls[i].base64Data
                => calls[j].result = calls[i].result

\* no step changes the bytes a call was given
C15_InputBytesKept ==
    \A i \in DOMAIN calls : calls'[i].base64Data = calls[i].base64Data

C16_ThreeOutcomes ==
    (pc = "decodeSettled" /\ ~checker.isChecking)
       => /\ renderResult(checker) \in {"error", "found", "notFound"}
          /\ renderResult(checker) = "error"
                <=> decodeResult.settled = "rejected"
          /\ renderResult(checker) = "found"
                <=> (decodeResult.settled = "resolved"
                     /\ ~decodeResult.value.isNull)
          /\ renderResult(checker) = "notFound"
                <=> (decodeResult.settled = "resolved"
                     /\ decodeResult.value.isNull)

\* C17: when the payload contains the terminator, first at index i, and
\* fits the image, decoding the encoder's output returns exactly the first
\* i characters of the payload
C17_TerminatorTruncates ==
    (DecodedEmbedded /\ Fits(text, original) /\ IndexOf(text, terminator) # -1)
        => decodeResult.value
              = Str(Substring(text, 0, IndexOf(text, terminator)))

\* the decode call ran its onload handler with a 2D context
DecodeRan == pc = "decodeSettled" /\ event = "load"

\* the phases of one decode call: SCANNING_PREFIX is scans[1], SCANNING_FULL
\* is scans[2]; each starts at bit 0 with an empty accumulator, the full
\* scan is entered only after a prefix that is exhausted without a
\* terminator and has fewer rows than the image, and the promise resolves
\* with the result of the last phase
DecoderPhases ==
    LET width  == decodeInput.width
        height == decodeInput.height
    IN  /\ Len(scans) \in {1, 2}
        /\ scans[1].rows = initialRows(height)
        /\ scans[1].fromBits = 0
        /\ scans[1].fromIndex = 0
        /\ Len(scans) = 2
              <=> (scans[1].result.isNull /\ initialRows(height) < height)
        /\ Len(scans) = 2
              => /\ scans[1].dataIndex >= 4 * width * initialRows(height)
                 /\ scans[2].rows = height
                 /\ scans[2].fromBits = 0
                 /\ scans[2].fromIndex = 0
        /\ decodeResult.settled = "resolved"
        /\ decodeResult.value = scans[Len(scans)].result

\* C18: the decoder follows only the documented transitions, each phase
\* runs at most once per call, and DONE(null) is entered only from
\* SCANNING_FULL
C18_DocumentedMachine ==
    DecodeRan
       => /\ DecoderPhases
          /\ decodeResult.value.isNull => Len(scans) = 2

\* C18 as amended: the decoder follows the documented transitions and, when
\* the prefix is the whole image (height <= 50), SCANNING_PREFIX -> DONE(null)
C18_MachineWithPrefixNull ==
    DecodeRan
       => /\ DecoderPhases
          /\ decodeResult.value.isNull
                => \/ Len(scans) = 2
                   \/ Len(scans) = 1 /\ scans[1].rows = decodeInput.height

C18_Witness ==
    /\ DecodeRan
    /\ Len(scans) = 2
    /\ scans[1].result.isNull
    /\ ~scans[2].result.isNull
    /\ decodeResult.value = scans[2].result

\* one pass of the scan-and-check loop over the full-image buffer from bit 0
SingleFullScan(img) ==
    processData(getImageData(img.px, img.width, img.height), << >>, 0).result

\* C19: for every image, decodeInvisibleWatermark resolves with the value
\* (payload or null) that one scan of the whole image from bit 0 yields
C19_EquivalentToFullScan ==
    DecodeRan
       => /\ decodeResult.settled = "resolved"
          /\ decodeResult.value = SingleFullScan(decodeInput)

\* a payload found by the prefix scan of an image with more rows than the
\* prefix
C19_Witness ==
    /\ DecodeRan
    /\ decodeInput.height > PrefixRows
    /\ Len(scans) = 1
    /\ ~decodeResult.value.isNull
    /\ decodeResult.value.text # << >>

\* C20: the guard "bitstream length > 3 * width * rowsToRead" is true only
\* if the bitstream length also exceeds 3 * width * height, so the embed
\* call never embeds into the full-image buffer
C20_RestrictedNeverTooSmall ==
    EmbedRan
       => LET width  == original.width
              height == original.height
              rows   == rowsToRead(Len(binaryString), width, height)
          IN  /\ Len(binaryString) > 3 * width * rows
                    => Len(binaryString) > 3 * width * height
              /\ FullPathNeverTaken

\* the guard is true: the restricted rectangle, several rows of it, is the
\* whole image and the bitstream exceeds it
C20_Witness ==
    /\ EmbedRan
    /\ original.height > 1
    /\ Len(binaryString)
          > 3 * original.width
              * rowsToRead(Len(binaryString), original.width, original.height)
    /\ embedResult.path = "tooSmall"

\* C21: the encoder reads rows 0 .. rowsToRead - 1 at full width, with
\* rowsToRead = min(height, ceil(ceil(bitLength / 3) / width) + 1), writes
\* the same rows back on the optimized path, and there that rectangle holds
\* every bit of the bitstream: the loop of embedIntoData never breaks
C21_RowsHoldBitstream ==
    EmbedRan
       => LET width  == original.width
              height == original.height
              bits   == Len(binaryString)
              rows   == Min(height, Ceil(Ceil(bits, 3), width) + 1)
              after  == embedLoop([data |-> getImageData(original.px, width,
                                                          rows),
                                   dataIndex |-> 0, stopped |-> FALSE],
                                  binaryString, 0, bits)
          IN  /\ embedResult.rowsRead = rows
              /\ embedResult.path = "optimized"
                    => /\ embedResult.rowsWritten = rows
                       /\ ~after.stopped
                       /\ \A k \in 1..bits :
                             CarrierLSBs(canvas)[k] = binaryString[k]
                       /\ SubSeq(canvas, 4 * width * rows + 1, Len(canvas))
                             = SubSeq(original.px, 4 * width * rows + 1,
                                      Len(original.px))

\* the optimized path on a rectangle of several rows that is not the whole
\* image
C21_Witness ==
    /\ EmbedRan
    /\ embedResult.path = "optimized"
    /\ embedResult.rowsWritten > 1
    /\ embedResult.rowsWritten < original.height
    /\ original.width > 1

\* C22: a phase that returns a payload found at first-occurrence index t of
\* the decoded text has read exactly 8 * (t + 7) carrier bytes and stops on
\* the byte that carries the last bit of the terminator
C22_StopsAtTerminator ==
    DecodeRan
       => \A s \in DOMAIN scans :
             ~scans[s].result.isNull
                => LET t == IndexOf(CarrierText(decodeInput.px), terminator)
                       read == Len(scans[s].binaryString) - scans[s].fromBits
                   IN  /\ t # -1
                       /\ Len(scans[s].result.text) = t
                       /\ read = 8 * (t + Len(terminator))
                       /\ scans[s].dataIndex = CarrierIndex(read - 1)

\* a payload is returned while carrier bytes of the buffer are left unread
C22_Witness ==
    /\ DecodeRan
    /\ Len(scans) = 1
    /\ ~scans[1].result.isNull
    /\ Len(scans[1].result.text) > 1
    /\ scans[1].dataIndex + 8 < 4 * decodeInput.width * scans[1].rows

\* 8 * (len(P) + 7) <= 3 * width * min(50, height)
FitsPrefix(t, img) ==
    8 * (Len(t) + Len(terminator)) <= 3 * img.width * initialRows(img.height)

\* C23: when a watermark was embedded and its bitstream fits in the first
\* min(50, height) rows, the decoder returns the payload during the prefix
\* scan and never reads the full image
C23_FoundInPrefix ==
    (DecodedEmbedded /\ FitsPrefix(text, original))
        => /\ decodeResult.value = Str(text)
           /\ Len(scans) = 1

\* C24: for a non-creator session the embedded payload is the logged-in
\* user's name, and "BeJeon" is embedded only for the creator session, for
\* every combination of isCreator and loggedInUser (absent and empty
\* included)
C24_PayloadSelection ==
    (caller = "process" /\ pc # "idle")
       => /\ ~session.isCreator
                => /\ ~session.loggedInUser.isNull
                   /\ text = session.loggedInUser.text
          /\ text = CreatorMark => session.isCreator

\* C25: the MIME type processGeneratedImage returns describes the bytes it
\* returns: 'image/png' only with PNG bytes produced by the encoder, the
\* original bytes only with the original MIME type, also when the image is
\* too small and the encoder hands back the original bytes
C25_MimeDescribesBytes ==
    processed.state = "returned"
       => /\ processed.mimeType = processed.base64Data.mimeType
          /\ processed.mimeType = "image/png"
                => \/ processed.base64Data = toDataURL(original.width,
                                                       original.height, canvas)
                   \/ /\ processed.base64Data = original
                      /\ original.mimeType = "image/png"
          /\ processed.base64Data = original
                => processed.mimeType = original.mimeType

\* what decoding yields after embedding the bitstream bits into img
DecodeAfterEmbed(img, bits) ==
    decodeOnload(embedOnload(img, bits, TRUE).value, TRUE).value

\* C26: for an image that already carries a payload P and a payload Q that
\* fits, decoding after embedding Q on top gives what decoding after
\* embedding Q into the unwatermarked image gives, whether Q is shorter or
\* longer than P
C26_ReembedOverwrites ==
    (DecodedEmbedded /\ under.marked)
        => decodeResult.value = DecodeAfterEmbed(under.image, binaryString)

\* a shorter payload was embedded over a longer one and decoded
C26_Witness ==
    /\ DecodedEmbedded
    /\ under.marked
    /\ Len(text) < Len(under.text)
    /\ IsAscii(under.text)
    /\ decodeResult.value = Str(text)
    /\ Len(text) > 1

\* the checker after a check of the file of f alone
CheckedAlone(f) ==
    handleFileAfter(handleFileStart(InitialChecker), f.result,
                    RejectionMessage(f))

\* C27: when a second file is selected while the first check is running,
\* the 'checking' indicator stays on until the check of the most recent
\* file has finished, and once all checks have finished the displayed
\* result or error is the one of the most recent file, in every order of
\* completion
C27_LatestFileWins ==
    Len(calls) >= 1
       => LET latest == calls[Len(calls)]
          IN  /\ latest.state = "loading" => checker.isChecking
              /\ (\A i \in DOMAIN calls : calls[i].state = "settled")
                    => /\ checker.result = CheckedAlone(latest).result
                       /\ checker.error = CheckedAlone(latest).error
                       /\ renderResult(checker)
                             = renderResult(CheckedAlone(latest))

(***************************************************************************)
(* Properties of the activity log                                          *)
(***************************************************************************)
\* the entries are ordered newest first
NewestFirst(log) ==
    \A k \in 1..(Len(log) - 1) : log[k].stamp > log[k + 1].stamp

\* call i has just written its entry with setItem succeeding
WroteOk(i) ==
    /\ i \in DOMAIN loggers
    /\ loggers[i].state = "thumbnails"
    /\ loggers'[i].storage = "ok"

\* no setItem has thrown, in any call
NoStorageError == \A j \in DOMAIN loggers : loggers[j].storage \in {"none", "ok"}

\* C28: the stored log never has more than 50 entries and is ordered newest
\* first; a logActivity call whose setItem succeeds puts its entry at index 0
\* in front of the entries that were stored and drops only those beyond 50;
\* a call made with no logged-in user never changes the stored log and never
\* has an entry in it.
C28_LogBoundAndOrder ==
    /\ [](/\ Len(stored) <= MAX_LOG_ENTRIES
          /\ NewestFirst(stored)
          /\ \A i \in DOMAIN loggers :
                loggers[i].state = "noUser" =>
                    \A k \in DOMAIN stored : stored[k].call # i)
    /\ [][/\ \A i \in DOMAIN loggers :
                WroteOk(i) =>
                    /\ stored'[1] = loggers'[i].entry
                    /\ Len(stored') = Min(Len(stored) + 1, MAX_LOG_ENTRIES)
                    /\ \A k \in 2..Len(stored') : stored'[k] = stored[k - 1]
          /\ \A i \in DOMAIN loggers' :
                loggers'[i].state = "noUser" =>
                    IF i \in DOMAIN loggers
                    THEN loggers'[i] = loggers[i]
                    ELSE stored' = stored]_vars

\* a call has written into a full log, which dropped the oldest entry, and
\* another call was made with no logged-in user
C28_Witness ==
    /\ Len(stored) = MAX_LOG_ENTRIES
    /\ stored[1].call # 0
    /\ loggers[stored[1].call].storage = "ok"
    /\ Len(loggers[stored[1].call].seen) = MAX_LOG_ENTRIES
    /\ stored[MAX_LOG_ENTRIES].stamp = 2
    /\ \E j \in DOMAIN loggers : loggers[j].state = "noUser"

\* C29: as long as no setItem has thrown, the entry of every call that has
\* written is in the stored log, in whatever order the thumbnail steps of the
\* concurrent calls completed, unless the log was cleared after the entry was
\* made or 50 newer entries have pushed it out.
C29_NoLostUpdate ==
    NoStorageError =>
        \A i \in DOMAIN loggers :
            (loggers[i].state = "stored" /\ loggers[i].entry.stamp > wipedAt) =>
                \/ \E k \in DOMAIN stored : stored[k] = loggers[i].entry
                \/ /\ Len(stored) = MAX_LOG_ENTRIES
                   /\ stored[MAX_LOG_ENTRIES].stamp > loggers[i].entry.stamp

\* two calls started on the same stored log, the second finished its
\* thumbnails first, and both entries are stored
C29_Witness ==
    /\ NoStorageError
    /\ Len(loggers) >= 2
    /\ loggers[1].state = "stored"
    /\ loggers[2].state = "stored"
    /\ loggers[1].seen = loggers[2].seen
    /\ loggers[2].entry.stamp < loggers[1].entry.stamp
    /\ wipedAt = 0
    /\ Len(stored) >= 2
    /\ stored[1] = loggers[1].entry
    /\ stored[2] = loggers[2].entry

====
